---- MODULE Spec2Model ----
(***************************************************************************)
(* Model of hamkar914/opt_control_nmr:                                     *)
(*   create_superoperator.py  Liouville-space superoperator of a two-spin  *)
(*                            Hamiltonian, projected on the product        *)
(*                            operator basis, and its print-out            *)
(*   homemade_wigner.py       generate_wigner, the rank-2 Wigner matrix    *)
(*                                                                         *)
(* Numbers.  A complex number is a pair <<re, im>>.  In the superoperator  *)
(* script every value is a dyadic rational with a small denominator, so    *)
(* double precision computes it exactly; a real x is held as the integer   *)
(* x * Scale.  Descale is defined only where the division is exact, so a   *)
(* value that would need rounding stops TLC with an error instead of being *)
(* truncated silently.                                                     *)
(***************************************************************************)
EXTENDS Integers, Sequences, FiniteSets, TLC

\* fixed-point unit: 1.0 is held as Scale (all script values are k/64)
Scale == 2^6

\* the value that is not there: evaluating it is a TLC error
Inexact == CHOOSE q \in {} : TRUE
Descale(x) == IF x % Scale = 0 THEN x \div Scale ELSE Inexact

\* complex scalars
Cx(re, im) == <<re, im>>
Re(z) == z[1]
Im(z) == z[2]
Zero == Cx(0, 0)
One == Cx(Scale, 0)
Half == Cx(Scale \div 2, 0)
HalfJ == Cx(0, Scale \div 2)
Two == Cx(2 * Scale, 0)
Real(k) == Cx(k * Scale, 0)

CAdd(a, b) == Cx(Re(a) + Re(b), Im(a) + Im(b))
CSub(a, b) == Cx(Re(a) - Re(b), Im(a) - Im(b))
CNeg(a) == Cx(-Re(a), -Im(a))
CMul(a, b) ==
  Cx(Descale(Re(a) * Re(b) - Im(a) * Im(b)), Descale(Re(a) * Im(b) + Im(a) * Re(b)))

\* division by a complex number whose imaginary part is zero (every divisor
\* of the projection loop is such a number); undefined for a zero divisor
CDivReal(a, d) ==
  CHOOSE q \in {Cx((Re(a) * Scale) \div Re(d), (Im(a) * Scale) \div Re(d))} :
    /\ Im(d) = 0
    /\ Re(d) # 0
    /\ Re(q) * Re(d) = Re(a) * Scale
    /\ Im(q) * Re(d) = Im(a) * Scale

RECURSIVE ISum(_, _, _)
\* sum of the integers g[k] for k = lo .. hi, lo <= hi; the sums are exact, so
\* the order of the additions does not matter and the range is halved to keep
\* the nesting of the evaluation low
ISum(g, lo, hi) ==
  IF lo = hi THEN g[lo]
  ELSE ISum(g, lo, (lo + hi) \div 2) + ISum(g, (lo + hi) \div 2 + 1, hi)

\* sum of the complex numbers f[k] for k = lo .. hi.
\* TLC keeps a function constructor as a rule and applies the rule anew at
\* every use; "@@ <<>>" makes the same function, tabulated once.
CSum(f, lo, hi) ==
  LET terms == [k \in lo..hi |-> f[k]] @@ <<>>
  IN  IF DOMAIN terms = {} THEN Zero
      ELSE Cx(ISum([k \in lo..hi |-> Re(terms[k])], lo, hi),
              ISum([k \in lo..hi |-> Im(terms[k])], lo, hi))

\* matrices are functions 0..n-1 -> 0..n-1 -> complex, vectors 0..n-1 -> complex
Dim(A) == Cardinality(DOMAIN A)
Mat2(a00, a01, a10, a11) ==
  [i \in 0..1 |-> [j \in 0..1 |-> IF i = 0 THEN (IF j = 0 THEN a00 ELSE a01)
                                          ELSE (IF j = 0 THEN a10 ELSE a11)]]
MScale(z, A) ==
  [i \in DOMAIN A |-> [j \in DOMAIN A[i] |-> CMul(z, A[i][j])] @@ <<>>] @@ <<>>
MAdd(A, B) ==
  [i \in DOMAIN A |-> [j \in DOMAIN A[i] |-> CAdd(A[i][j], B[i][j])] @@ <<>>] @@ <<>>
MSub(A, B) ==
  [i \in DOMAIN A |-> [j \in DOMAIN A[i] |-> CSub(A[i][j], B[i][j])] @@ <<>>] @@ <<>>
Transpose(A) ==
  [i \in DOMAIN A |-> [j \in DOMAIN A |-> A[j][i]] @@ <<>>] @@ <<>>
MMul(A, B) ==
  [i \in DOMAIN A |-> [j \in DOMAIN A |->
     CSum([k \in DOMAIN A |-> CMul(A[i][k], B[k][j])], 0, Dim(A) - 1)] @@ <<>>] @@ <<>>
ZeroMat(size) == [i \in 0..(size - 1) |-> [j \in 0..(size - 1) |-> Zero]]

\* np.kron of two square matrices
Kron(A, B) ==
  LET p == Dim(A)
      q == Dim(B)
  IN  [i \in 0..(p * q - 1) |-> [j \in 0..(p * q - 1) |->
         CMul(A[i \div q][j \div q], B[i % q][j % q])] @@ <<>>] @@ <<>>

\* ndarray.flatten(): row-major
Flatten(A) ==
  LET p == Dim(A)
  IN  [k \in 0..(p * p - 1) |-> A[k \div p][k % p]]
VScale(z, v) == [k \in DOMAIN v |-> CMul(z, v[k])]
\* np.dot of two vectors: no complex conjugation
Dot(u, v) == CSum([k \in DOMAIN u |-> CMul(u[k], v[k])], 0, Cardinality(DOMAIN u) - 1)
\* np.dot of a matrix and a vector
MatVec(A, v) == [i \in DOMAIN A |-> Dot(A[i], v)]

----------------------------------------------------------------------------
\* 1. Spin operators (create_superoperator.py)

uni == Mat2(One, Zero, Zero, One)
Ix == MScale(Half, Mat2(Zero, One, One, Zero))
\* 0.5 written for 0.5j
IyReal == MScale(Half, Mat2(Zero, CNeg(One), One, Zero))
Iy == MScale(HalfJ, Mat2(Zero, CNeg(One), One, Zero))
Iz == MScale(Half, Mat2(One, Zero, Zero, CNeg(One)))

E == Kron(uni, uni)
pIz == Kron(Iz, uni)
pSz == Kron(uni, Iz)
pIzSz == MScale(Two, Kron(Iz, Iz))

pIx == Kron(Ix, uni)
pIy == Kron(Iy, uni)
\* the factor 2 of a two-spin term left out
pIxSzUnscaled == Kron(Ix, Iz)
pIxSz == MScale(Two, Kron(Ix, Iz))
pIySz == MScale(Two, Kron(Iy, Iz))

pSx == Kron(uni, Ix)
pSy == Kron(uni, Iy)
pIzSx == MScale(Two, Kron(Iz, Ix))
pIzSy == MScale(Two, Kron(Iz, Iy))

pIxSx == MScale(Two, Kron(Ix, Ix))
pIySy == MScale(Two, Kron(Iy, Iy))
\* the line of pIxSx copied without changing the second factor
pIxSyCopied == MScale(Two, Kron(Ix, Ix))
pIxSy == MScale(Two, Kron(Ix, Iy))
pIySx == MScale(Two, Kron(Iy, Ix))

vE == Flatten(E)
vIz == Flatten(pIz)
vSz == Flatten(pSz)
vIzSz == Flatten(pIzSz)

vIx == Flatten(pIx)
vIy == Flatten(pIy)
vIxSz == Flatten(pIxSz)
vIySz == Flatten(pIySz)

vSx == Flatten(pSx)
vSy == Flatten(pSy)
vIzSx == Flatten(pIzSx)
vIzSy == Flatten(pIzSy)

vIxSx == Flatten(pIxSx)
vIySy == Flatten(pIySy)
vIxSy == Flatten(pIxSy)
vIySx == Flatten(pIySx)

\* the 16 product operators, in the order of the basis list
ProductOperators ==
  <<E, pIx, pIy, pIz, pSx, pSy, pSz, pIxSz, pIySz,
    pIzSx, pIzSy, pIxSx, pIxSy, pIySx, pIySy, pIzSz>>

\* trace inner product: sum over i, j of A[i,j] * B[j,i]
TraceInner(A, B) ==
  CSum([k \in 0..15 |-> CMul(A[k \div 4][k % 4], Transpose(B)[k \div 4][k % 4])], 0, 15)

----------------------------------------------------------------------------
\* 2. Hilbert space Hamiltonian

\* largest magnitude of a coefficient of the one-term Hamiltonians tried
MaxCoef == 1

\* H = 1*pIz + 2*pSz + 3*(pIxSx+pIySy+pIzSz) + 4*(pIx+pSx) + 5*(pIy+pSy)
ScriptH ==
  MAdd(MAdd(MAdd(MAdd(MScale(Real(1), pIz), MScale(Real(2), pSz)),
                 MScale(Real(3), MAdd(MAdd(pIxSx, pIySy), pIzSz))),
            MScale(Real(4), MAdd(pIx, pSx))),
       MScale(Real(5), MAdd(pIy, pSy)))

\* the coefficients of ScriptH on the 16 product operators, in basis order
RefCoef == <<0, 4, 5, 1, 4, 5, 2, 0, 0, 0, 0, 3, 0, 0, 3, 3>>

\* w[1]*P[1] + ... + w[16]*P[16] over the product operators P, entry by entry
WeightedSum(w) ==
  LET ops == ProductOperators
  IN  [i \in 0..3 |-> [j \in 0..3 |->
         CSum([k \in 1..16 |-> CMul(Real(w[k]), ops[k][i][j])], 1, 16)] @@ <<>>] @@ <<>>

\* line 91 rewritten with other real coefficients
Hamiltonian(w) == IF w = RefCoef THEN ScriptH ELSE WeightedSum(w)

OneTerm(k, x) == [i \in 1..16 |-> IF i = k THEN x ELSE 0]
CoefInputs ==
  {RefCoef} \cup {OneTerm(k, x) : k \in 1..16, x \in (-MaxCoef)..MaxCoef}

----------------------------------------------------------------------------
\* 3. Liouville space transformation

\* the conjugate transpose of H taken for its transpose
Conj(z) == Cx(Re(z), -Im(z))
ConjTranspose(A) ==
  [i \in DOMAIN A |-> [j \in DOMAIN A |-> Conj(A[j][i])] @@ <<>>] @@ <<>>
SuperoperatorConj(h) == MSub(Kron(h, Transpose(E)), Kron(E, ConjTranspose(h)))
\* the transpose of H left out
SuperoperatorNoTranspose(h) == MSub(Kron(h, Transpose(E)), Kron(E, h))
\* Hs = np.kron(H, E.T) - np.kron(E, H.T)
Superoperator(h) == MSub(Kron(h, Transpose(E)), Kron(E, Transpose(h)))

\* the identity vector scaled away
VectorOperatorsNull ==
  <<VScale(Zero, vE), vIx, vIy, vIz, vSx, vSy, vSz, vIxSz, vIySz,
    vIzSx, vIzSy, vIxSx, vIxSy, vIySx, vIySy, vIzSz>>
VectorOperators ==
  <<VScale(Half, vE), vIx, vIy, vIz, vSx, vSy, vSz, vIxSz, vIySz,
    vIzSx, vIzSy, vIxSx, vIxSy, vIySx, vIySy, vIzSz>>

\* rop = vector_operators[r], with r counted from 0 as in the script
Rop(ops, i) == ops[i + 1]

\* the division by the self-dot-product left out
ProjectionNoDiv(hs, rop, cop) == Dot(rop, MatVec(hs, cop))
\* np.dot(rop, np.dot(Hs, cop.T)) / np.dot(rop, rop.T)
Projection(hs, rop, cop) == CDivReal(Dot(rop, MatVec(hs, cop)), Dot(rop, rop))

----------------------------------------------------------------------------
\* 4. Print out the Liouvillian

\* '{0:7.1f}': the nearest number of tenths, ties to the even one (the sign of
\* a negative zero is not kept)
Tenths(x) ==
  LET n == 10 * x
      q == n \div Scale
      rem == n % Scale
  IN  IF 2 * rem < Scale THEN q
      ELSE IF 2 * rem > Scale THEN q + 1
      ELSE IF q % 2 = 0 THEN q ELSE q + 1

ImagPart(A) == [i \in DOMAIN A |-> [j \in DOMAIN A[i] |-> Im(A[i][j])]]

----------------------------------------------------------------------------
\* State

VARIABLES
  pc,               \* position in create_superoperator.py
  coef,             \* the coefficients written into line 91
  H, Hs,            \* Hilbert space Hamiltonian, raw superoperator
  vector_operators, \* the basis list
  Hsp,              \* projected superoperator
  r, c,             \* projection loop counters
  m, n,             \* print loop counters
  outstring,        \* the row being formatted: <<row number, tenths, ...>>
  stdout            \* what was printed

scriptVars ==
  <<pc, coef, H, Hs, vector_operators, Hsp, r, c, m, n, outstring, stdout>>

\* the trace inner product of two product operators, as a function applied
\* to a pair drawn from the 16
VARIABLES
  opA, opB,         \* positions in ProductOperators
  inner             \* TraceInner of the two, once computed

innerVars == <<opA, opB, inner>>

\* the raw superoperator as a function of any 4x4 matrix
VARIABLES
  sa, sb,           \* two complex scalars
  H1, H2,           \* two 4x4 matrices
  sup1, sup2,       \* the superoperators of H1 and of H2, once computed
  sup               \* the superoperator of sa*H1 + sb*H2, once computed

superVars == <<sa, sb, H1, H2, sup1, sup2, sup>>

\* generate_wigner (homemade_wigner.py)
VARIABLES
  wpc,              \* position in generate_wigner
  eul_ang_triplet,  \* the argument
  alpha, beta, gamma,
  Wigner,           \* the matrix being filled, returned at the end
  red_wig,          \* the reduced Wigner matrix
  row, col          \* loop counters

wignerVars == <<wpc, eul_ang_triplet, alpha, beta, gamma, Wigner, red_wig, row, col>>

vars == <<scriptVars, innerVars, superVars, wignerVars>>

Unset == <<>>

InnerIdle == opA = 0 /\ opB = 0 /\ inner = Unset
SuperIdle ==
  /\ sa = Zero
  /\ sb = Zero
  /\ H1 = Unset
  /\ H2 = Unset
  /\ sup1 = Unset
  /\ sup2 = Unset
  /\ sup = Unset

WignerIdle ==
  /\ wpc = "off"
  /\ eul_ang_triplet = Unset
  /\ alpha = Unset
  /\ beta = Unset
  /\ gamma = Unset
  /\ Wigner = Unset
  /\ red_wig = Unset
  /\ row = 0
  /\ col = 0

ScriptIdle ==
  /\ pc = "off"
  /\ coef = Unset
  /\ H = Unset
  /\ Hs = Unset
  /\ vector_operators = Unset
  /\ Hsp = Unset
  /\ r = 0
  /\ c = 0
  /\ m = 0
  /\ n = 0
  /\ outstring = <<>>
  /\ stdout = <<>>

ScriptInit ==
  /\ pc = "hamiltonian"
  /\ coef \in CoefInputs
  /\ H = Unset
  /\ Hs = Unset
  /\ vector_operators = Unset
  /\ Hsp = Unset
  /\ r = 0
  /\ c = 0
  /\ m = 0
  /\ n = 0
  /\ outstring = <<>>
  /\ stdout = <<>>

\* line 91
BuildH ==
  /\ pc = "hamiltonian"
  /\ H' = Hamiltonian(coef)
  /\ pc' = "superoperator"
  /\ UNCHANGED <<coef, Hs, vector_operators, Hsp, r, c, m, n, outstring, stdout>>
  /\ UNCHANGED <<innerVars, superVars, wignerVars>>

\* line 99
BuildHs ==
  /\ pc = "superoperator"
  /\ Hs' = Superoperator(H)
  /\ pc' = "basis"
  /\ UNCHANGED <<coef, H, vector_operators, Hsp, r, c, m, n, outstring, stdout>>
  /\ UNCHANGED <<innerVars, superVars, wignerVars>>

\* lines 102-106
BuildBasis ==
  /\ pc = "basis"
  /\ vector_operators' = VectorOperators
  /\ Hsp' = ZeroMat(16)
  /\ pc' = "project"
  /\ UNCHANGED <<coef, H, Hs, r, c, m, n, outstring, stdout>>
  /\ UNCHANGED <<innerVars, superVars, wignerVars>>

\* lines 108-117: one pass of the inner loop body
Project ==
  /\ pc = "project"
  /\ LET rop == Rop(vector_operators, r)
         cop == Rop(vector_operators, c)
     IN  IF Dot(rop, rop) = Zero
         THEN \* numpy divides by zero: nan entries, not followed further
              /\ pc' = "nan"
              /\ UNCHANGED <<Hsp, r, c, m, n>>
         ELSE /\ Hsp' = [Hsp EXCEPT ![r][c] = Projection(Hs, rop, cop)]
              /\ IF c < 15
                 THEN /\ c' = c + 1
                      /\ UNCHANGED <<r, pc, m, n>>
                 ELSE IF r < 15
                 THEN /\ r' = r + 1
                      /\ c' = 0
                      /\ UNCHANGED <<pc, m, n>>
                 ELSE \* both loops are over; line 127
                      /\ m' = 0
                      /\ n' = 0
                      /\ pc' = "print_row"
                      /\ UNCHANGED <<r, c>>
  /\ UNCHANGED <<coef, H, Hs, vector_operators, outstring, stdout>>
  /\ UNCHANGED <<innerVars, superVars, wignerVars>>

\* lines 129-132
PrintRowStart ==
  /\ pc = "print_row"
  /\ m < 16
  /\ outstring' = <<m + 1>>
  /\ n' = 0
  /\ pc' = "print_entry"
  /\ UNCHANGED <<coef, H, Hs, vector_operators, Hsp, r, c, m, stdout>>
  /\ UNCHANGED <<innerVars, superVars, wignerVars>>

\* lines 134-137
PrintEntry ==
  /\ pc = "print_entry"
  /\ n < 16
  /\ outstring' = Append(outstring, Tenths(Im(Hsp[m][n])))
  /\ n' = n + 1
  /\ UNCHANGED <<pc, coef, H, Hs, vector_operators, Hsp, r, c, m, stdout>>
  /\ UNCHANGED <<innerVars, superVars, wignerVars>>

\* lines 139-141
PrintRowEnd ==
  /\ pc = "print_entry"
  /\ n >= 16
  /\ stdout' = Append(stdout, outstring)
  /\ m' = m + 1
  /\ pc' = "print_row"
  /\ UNCHANGED <<coef, H, Hs, vector_operators, Hsp, r, c, n, outstring>>
  /\ UNCHANGED <<innerVars, superVars, wignerVars>>

\* line 143
PrintMatrix ==
  /\ pc = "print_row"
  /\ m >= 16
  /\ stdout' = Append(stdout, ImagPart(Hsp))
  /\ pc' = "done"
  /\ UNCHANGED <<coef, H, Hs, vector_operators, Hsp, r, c, m, n, outstring>>
  /\ UNCHANGED <<innerVars, superVars, wignerVars>>

Init == ScriptInit /\ InnerIdle /\ SuperIdle /\ WignerIdle

Next ==
  \/ BuildH
  \/ BuildHs
  \/ BuildBasis
  \/ Project
  \/ PrintRowStart
  \/ PrintEntry
  \/ PrintRowEnd
  \/ PrintMatrix

Spec == Init /\ [][Next]_vars

----------------------------------------------------------------------------
\* The trace inner product on the product operators

InnerInputs ==
  /\ opA \in 1..16
  /\ opB \in 1..16
  /\ inner = Unset

ComputeInner ==
  /\ inner = Unset
  /\ opA # 0
  /\ inner' = TraceInner(ProductOperators[opA], ProductOperators[opB])
  /\ UNCHANGED <<opA, opB, scriptVars, superVars, wignerVars>>

InnerInit == InnerInputs /\ ScriptIdle /\ SuperIdle /\ WignerIdle

SpecInner == InnerInit /\ [][ComputeInner]_vars

----------------------------------------------------------------------------
\* The raw superoperator of a linear combination

\* largest magnitude of the real and of the imaginary scalars tried
MaxScalar == 1

Scalars ==
  {Cx(x * Scale, 0) : x \in (-MaxScalar)..MaxScalar}
  \cup {Cx(0, y * Scale) : y \in (-MaxScalar)..MaxScalar}

LinComb(a, A, b, B) == MAdd(MScale(a, A), MScale(b, B))

\* the pairs of matrices tried: any product operator with the identity, a
\* purely imaginary one-spin operator, a real and an imaginary two-spin operator
OperatorPairs ==
  LET ops == ProductOperators
  IN  {<<ops[j], B>> : j \in 1..16, B \in {E, pIy, pIzSx, pIxSy}}

SuperInputs ==
  /\ sup1 = Unset
  /\ sup2 = Unset
  /\ sup = Unset
  /\ \E p \in OperatorPairs : H1 = p[1] /\ H2 = p[2]
  /\ sa \in Scalars
  /\ sb \in Scalars

ToSuperoperator ==
  /\ sup = Unset
  /\ H1 # Unset
  /\ sup1' = Superoperator(H1)
  /\ sup2' = Superoperator(H2)
  /\ sup' = Superoperator(LinComb(sa, H1, sb, H2))
  /\ UNCHANGED <<sa, sb, H1, H2, scriptVars, innerVars, wignerVars>>

SuperInit == SuperInputs /\ ScriptIdle /\ InnerIdle /\ WignerIdle

SpecSuper == SuperInit /\ [][ToSuperoperator]_vars

----------------------------------------------------------------------------
\* generate_wigner (homemade_wigner.py)
\*
\* Numbers.  The angles alpha and gamma are whole numbers of quarter turns, so
\* their phase factors are 1, -j, -1, j.  The angle beta is given by the point
\* 5 * (cos(beta/2), sin(beta/2)) with whole coordinates, so every sine and
\* cosine of the table is rational and every entry is (a + b*sqrt(6)) / WScale
\* with whole a and b, held as <<a, b>>; a complex entry is <<re, im>> of two
\* such pairs.  The arithmetic is that of the real numbers: the rounding of
\* double precision is not modelled.

WScale == (2^2) * (5^4)

QDescale(x) == IF x % WScale = 0 THEN x \div WScale ELSE Inexact
QInt(k) == <<k * WScale, 0>>
QZero == QInt(0)
QAdd(x, y) == <<x[1] + y[1], x[2] + y[2]>>
QSub(x, y) == <<x[1] - y[1], x[2] - y[2]>>
QNeg(x) == <<-x[1], -x[2]>>
QMul(x, y) ==
  <<QDescale(x[1] * y[1] + 6 * x[2] * y[2]), QDescale(x[1] * y[2] + x[2] * y[1])>>
QHalf(x) ==
  IF x[1] % 2 = 0 /\ x[2] % 2 = 0 THEN <<x[1] \div 2, x[2] \div 2>> ELSE Inexact
RECURSIVE QPow(_, _)
QPow(x, k) == IF k = 0 THEN QInt(1) ELSE QMul(x, QPow(x, k - 1))

\* sqrt(3/8) = sqrt(6)/4 and sqrt(3/2) = sqrt(6)/2
Sqrt3Over8 == <<0, WScale \div 4>>
Sqrt3Over2 == <<0, WScale \div 2>>

WZero == <<QZero, QZero>>
WOne == <<QInt(1), QZero>>
WMul(x, y) ==
  <<QSub(QMul(x[1], y[1]), QMul(x[2], y[2])), QAdd(QMul(x[1], y[2]), QMul(x[2], y[1]))>>

\* cos(beta/2), sin(beta/2), cos(beta), sin(beta) for beta given by its point
CosHalf(b) == <<b[1] * (WScale \div 5), 0>>
SinHalf(b) == <<b[2] * (WScale \div 5), 0>>
Cos(b) == QSub(QMul(CosHalf(b), CosHalf(b)), QMul(SinHalf(b), SinHalf(b)))
Sin(b) == QMul(QInt(2), QMul(SinHalf(b), CosHalf(b)))

\* np.exp(-1j * k * pi/2) for a whole k
ExpMinusJ(k) ==
  CASE k % 4 = 0 -> <<QInt(1), QZero>>
    [] k % 4 = 1 -> <<QZero, QInt(-1)>>
    [] k % 4 = 2 -> <<QInt(-1), QZero>>
    [] k % 4 = 3 -> <<QZero, QInt(1)>>

\* largest number of quarter turns of alpha and of gamma, either way round
MaxQuarter == 2

QuarterTurns == (-MaxQuarter)..MaxQuarter
BetaPoints == {b \in (-5..5) \X (-5..5) : b[1] * b[1] + b[2] * b[2] = 25}
BetaZero == <<5, 0>>

\* np.array([2, 1, 0, -1, -2])
plus_to_minus_two == [k \in 0..4 |-> 2 - k]

Rows5(rows) == [i \in 0..4 |-> [j \in 0..4 |-> rows[i + 1][j + 1]]]

\* the table with (2*cos(beta)-1) written for (2*cos(beta)+1) in line 33
ReducedWignerTypo(b) ==
  LET sinb == Sin(b)
      cosb == Cos(b)
      one == QInt(1)
      two == QInt(2)
      three == QInt(3)
  IN  Rows5(<<
        << QPow(CosHalf(b), 4),
           QHalf(QMul(QNeg(sinb), QAdd(one, cosb))),
           QMul(Sqrt3Over8, QPow(sinb, 2)),
           QHalf(QMul(QNeg(sinb), QSub(one, cosb))),
           QPow(SinHalf(b), 4) >>,
        << QHalf(QMul(sinb, QAdd(one, cosb))),
           QHalf(QMul(QSub(QMul(two, cosb), one), QAdd(one, cosb))),
           QMul(QMul(QNeg(Sqrt3Over2), sinb), cosb),
           QHalf(QMul(QSub(QMul(two, cosb), one), QSub(one, cosb))),
           QHalf(QMul(QNeg(sinb), QSub(one, cosb))) >>,
        << QMul(Sqrt3Over8, QPow(sinb, 2)),
           QMul(QMul(Sqrt3Over2, sinb), cosb),
           QHalf(QSub(QMul(three, QPow(cosb, 2)), one)),
           QMul(QMul(QNeg(Sqrt3Over2), sinb), cosb),
           QMul(Sqrt3Over8, QPow(sinb, 2)) >>,
        << QHalf(QMul(sinb, QSub(one, cosb))),
           QHalf(QMul(QAdd(QMul(two, cosb), one), QSub(one, cosb))),
           QMul(QMul(Sqrt3Over2, sinb), cosb),
           QHalf(QMul(QSub(QMul(two, cosb), one), QAdd(one, cosb))),
           QHalf(QMul(QNeg(sinb), QAdd(one, cosb))) >>,
        << QPow(SinHalf(b), 4),
           QHalf(QMul(sinb, QSub(one, cosb))),
           QMul(Sqrt3Over8, QPow(sinb, 2)),
           QHalf(QMul(sinb, QAdd(one, cosb))),
           QPow(CosHalf(b), 4) >> >>)

\* red_wig, lines 31-39
ReducedWigner(b) ==
  LET sinb == Sin(b)
      cosb == Cos(b)
      one == QInt(1)
      two == QInt(2)
      three == QInt(3)
  IN  Rows5(<<
        \* line 31
        << QPow(CosHalf(b), 4),
           QHalf(QMul(QNeg(sinb), QAdd(one, cosb))),
           QMul(Sqrt3Over8, QPow(sinb, 2)),
           QHalf(QMul(QNeg(sinb), QSub(one, cosb))),
           QPow(SinHalf(b), 4) >>,
        \* line 33
        << QHalf(QMul(sinb, QAdd(one, cosb))),
           QHalf(QMul(QSub(QMul(two, cosb), one), QAdd(one, cosb))),
           QMul(QMul(QNeg(Sqrt3Over2), sinb), cosb),
           QHalf(QMul(QAdd(QMul(two, cosb), one), QSub(one, cosb))),
           QHalf(QMul(QNeg(sinb), QSub(one, cosb))) >>,
        \* line 35
        << QMul(Sqrt3Over8, QPow(sinb, 2)),
           QMul(QMul(Sqrt3Over2, sinb), cosb),
           QHalf(QSub(QMul(three, QPow(cosb, 2)), one)),
           QMul(QMul(QNeg(Sqrt3Over2), sinb), cosb),
           QMul(Sqrt3Over8, QPow(sinb, 2)) >>,
        \* line 37
        << QHalf(QMul(sinb, QSub(one, cosb))),
           QHalf(QMul(QAdd(QMul(two, cosb), one), QSub(one, cosb))),
           QMul(QMul(Sqrt3Over2, sinb), cosb),
           QHalf(QMul(QSub(QMul(two, cosb), one), QAdd(one, cosb))),
           QHalf(QMul(QNeg(sinb), QAdd(one, cosb))) >>,
        \* line 39
        << QPow(SinHalf(b), 4),
           QHalf(QMul(sinb, QSub(one, cosb))),
           QMul(Sqrt3Over8, QPow(sinb, 2)),
           QHalf(QMul(sinb, QAdd(one, cosb))),
           QPow(CosHalf(b), 4) >> >>)

\* line 47 with alpha written for gamma
WignerEntryAlphaTwice(a, g, red, mp, mm) ==
  WMul(WMul(ExpMinusJ(mp * a), <<red, QZero>>), ExpMinusJ(mm * a))
\* np.exp(-1j*mp*alpha)*red_wig[row,col]*np.exp(-1j*m*gamma)
WignerEntry(a, g, red, mp, mm) ==
  WMul(WMul(ExpMinusJ(mp * a), <<red, QZero>>), ExpMinusJ(mm * g))

WignerInputs ==
  /\ wpc = "call"
  /\ alpha = Unset
  /\ beta = Unset
  /\ gamma = Unset
  /\ Wigner = Unset
  /\ red_wig = Unset
  /\ row = 0
  /\ col = 0
  /\ eul_ang_triplet \in QuarterTurns \X BetaPoints \X QuarterTurns

\* lines 20-39
WignerEnter ==
  /\ wpc = "call"
  /\ alpha' = eul_ang_triplet[1]
  /\ beta' = eul_ang_triplet[2]
  /\ gamma' = eul_ang_triplet[3]
  /\ Wigner' = [i \in 0..4 |-> [j \in 0..4 |-> WZero]]
  /\ red_wig' = ReducedWigner(eul_ang_triplet[2])
  /\ wpc' = "fill"
  /\ UNCHANGED <<eul_ang_triplet, row, col, scriptVars, innerVars, superVars>>

\* lines 41-47: one pass of the inner loop body
WignerFill ==
  /\ wpc = "fill"
  /\ LET mp == plus_to_minus_two[row]
         mm == plus_to_minus_two[col]
     IN  Wigner' = [Wigner EXCEPT ![row][col] =
                      WignerEntry(alpha, gamma, red_wig[row][col], mp, mm)]
  /\ IF col < 4
     THEN /\ col' = col + 1
          /\ UNCHANGED <<row, wpc>>
     ELSE IF row < 4
     THEN /\ row' = row + 1
          /\ col' = 0
          /\ UNCHANGED wpc
     ELSE /\ wpc' = "return"
          /\ UNCHANGED <<row, col>>
  /\ UNCHANGED <<eul_ang_triplet, alpha, beta, gamma, red_wig,
                 scriptVars, innerVars, superVars>>

\* line 49
WignerReturn ==
  /\ wpc = "return"
  /\ wpc' = "returned"
  /\ UNCHANGED <<eul_ang_triplet, alpha, beta, gamma, Wigner, red_wig, row, col,
                 scriptVars, innerVars, superVars>>

WignerNext ==
  \/ WignerEnter
  \/ WignerFill
  \/ WignerReturn

WignerInit == WignerInputs /\ ScriptIdle /\ InnerIdle /\ SuperIdle

SpecWigner == WignerInit /\ [][WignerNext]_vars

----------------------------------------------------------------------------
\* Properties of the script

\* the 4x4 matrix with a single 1, at flattened position k
UnitMatrix(k) ==
  [i \in 0..3 |-> [j \in 0..3 |-> IF 4 * i + j = k THEN One ELSE Zero]]
Commutator(A, B) == MSub(MMul(A, B), MMul(B, A))
Projected == pc \in {"print_row", "print_entry", "done"}

\* C1: once Hs is built from H, Hs * flatten(rho) = flatten(H*rho - rho*H)
\* for each of the 16 unit matrices rho (H and Hs never change afterwards)
C1_CommutatorAction ==
  pc = "basis" =>
    \A k \in 0..15 :
      MatVec(Hs, Flatten(UnitMatrix(k))) = Flatten(Commutator(H, UnitMatrix(k)))

C1_Witness ==
  /\ pc = "basis"
  /\ coef = RefCoef
  /\ MatVec(Hs, Flatten(UnitMatrix(1))) # [k \in 0..15 |-> Zero]

\* C4: for the reference Hamiltonian every entry of Hsp has real part zero,
\* while it is filled and after; the printed matrix Hsp.imag then determines Hsp
C4_PurelyImaginary ==
  (coef = RefCoef /\ Hsp # Unset) =>
    /\ \A i, j \in 0..15 : Re(Hsp[i][j]) = 0
    /\ pc = "done" =>
         Hsp = [i \in 0..15 |-> [j \in 0..15 |-> Cx(0, stdout[17][i][j])]]

C4_Witness ==
  /\ coef = RefCoef
  /\ pc = "done"
  /\ \E i, j \in 0..15 : Im(Hsp[i][j]) # 0

\* C5: the divisor of the projection is never zero, for none of the 16 vectors
C5_DivisorNonZero ==
  pc = "project" =>
    /\ Dot(Rop(vector_operators, r), Rop(vector_operators, r)) # Zero
    /\ \A k \in 0..15 : Dot(Rop(vector_operators, k), Rop(vector_operators, k)) # Zero

\* a row whose vector is purely imaginary (vIy) has been divided by -1
C5_Witness ==
  /\ pc = "project"
  /\ r = 2
  /\ c > 0
  /\ Dot(Rop(vector_operators, r), Rop(vector_operators, r)) = CNeg(One)

\* C10: the projected superoperator is antisymmetric, with row 0 and column 0
\* zero, for every Hamiltonian tried
C10_Antisymmetric ==
  Projected =>
    /\ \A i, j \in 0..15 : Hsp[i][j] = CNeg(Hsp[j][i])
    /\ \A i \in 0..15 : Hsp[i][i] = Zero /\ Hsp[0][i] = Zero /\ Hsp[i][0] = Zero

\* a non-zero entry in a row divided by a negative self-dot-product
C10_Witness ==
  /\ Projected
  /\ Dot(Rop(vector_operators, 2), Rop(vector_operators, 2)) = CNeg(One)
  /\ \E j \in 0..15 : Hsp[2][j] # Zero

----------------------------------------------------------------------------
\* Properties of the product operators

\* C2: two distinct product operators have trace inner product 0
C2_Orthogonal ==
  (inner # Unset /\ opA # opB) => inner = Zero

C2_Witness ==
  /\ inner = Zero
  /\ ProductOperators[opA] = pIy
  /\ ProductOperators[opB] = pIySz

\* C3 as stated: every product operator has squared norm 4
C3_AllNormFour ==
  (inner # Unset /\ opA = opB) => inner = Real(4)

\* C3 as the code has it: the identity has squared norm 4, each of the other
\* 15 operators has squared norm 1
C3_NormOneButIdentity ==
  (inner # Unset /\ opA = opB) =>
    inner = IF ProductOperators[opA] = E THEN Real(4) ELSE One

C3_Witness ==
  /\ inner = One
  /\ opA = opB
  /\ ProductOperators[opA] = pIxSz

----------------------------------------------------------------------------
\* Properties of the raw superoperator

\* C9: the superoperator of a*H1 + b*H2 is a times that of H1 plus b times
\* that of H2, and the superoperator of the zero matrix is zero
C9_Linear ==
  sup # Unset =>
    /\ sup = LinComb(sa, sup1, sb, sup2)
    /\ LinComb(sa, H1, sb, H2) = ZeroMat(4) => sup = ZeroMat(16)

C9_Witness ==
  /\ sup # Unset
  /\ sup # ZeroMat(16)
  /\ Re(sa) # 0
  /\ Im(sb) # 0
  /\ H1 # H2

\* the zero matrix has been given to the function
C9_ZeroWitness ==
  /\ sup = ZeroMat(16)
  /\ sa = Zero
  /\ sb = Zero

----------------------------------------------------------------------------
\* Properties of generate_wigner

\* C6: with beta = 0 the returned matrix is diagonal, its entry k being
\* exp(-j*m*(alpha+gamma)) for the k-th m of 2, 1, 0, -1, -2; with all three
\* angles 0 it is the identity
C6_DiagonalAtBetaZero ==
  (wpc = "returned" /\ beta = BetaZero) =>
    /\ \A i, j \in 0..4 :
         Wigner[i][j] =
           IF i = j THEN ExpMinusJ(<<2, 1, 0, -1, -2>>[i + 1] * (alpha + gamma))
           ELSE WZero
    /\ (alpha = 0 /\ gamma = 0) =>
         Wigner = [i \in 0..4 |-> [j \in 0..4 |-> IF i = j THEN WOne ELSE WZero]]

C6_Witness ==
  /\ wpc = "returned"
  /\ beta = BetaZero
  /\ alpha = 1
  /\ gamma = 2
  /\ Wigner[1][1] = <<QZero, QInt(1)>>

\* the product of two entries, the second conjugated, in units of
\* 1 / (WScale * WScale): <<re, im>> of pairs <<a, b>>
QRaw(x, y) == <<x[1] * y[1] + 6 * x[2] * y[2], x[1] * y[2] + x[2] * y[1]>>
TimesConj(x, y) ==
  <<QAdd(QRaw(x[1], y[1]), QRaw(x[2], y[2])), QSub(QRaw(x[2], y[1]), QRaw(x[1], y[2]))>>
RECURSIVE RowTimesConjRow(_, _, _)
RowTimesConjRow(u, v, k) ==
  IF k < 0 THEN WZero
  ELSE LET t == TimesConj(u[k], v[k])
           rest == RowTimesConjRow(u, v, k - 1)
       IN  <<QAdd(t[1], rest[1]), QAdd(t[2], rest[2])>>

\* C7: the returned matrix times its conjugate transpose is the identity
C7_Unitary ==
  wpc = "returned" =>
    \A i, j \in 0..4 :
      RowTimesConjRow(Wigner[i], Wigner[j], 4) =
        IF i = j THEN <<(<<WScale * WScale, 0>>), QZero>> ELSE WZero

\* a matrix with entries that are neither rational nor real
C7_Witness ==
  /\ wpc = "returned"
  /\ beta = <<3, 4>>
  /\ alpha = 1
  /\ Wigner[1][2][2][2] # 0

====
